---- MODULE Spec2Model ----
(***************************************************************************)
(* lpc-dec: Low Pin Count bus protocol decoder (src/lpc-dec.c).            *)
(*                                                                         *)
(* The model follows main()'s loop: each step reads one (sequence number,  *)
(* sample byte) pair and hands it to lpcDecStateSampleProcess, which       *)
(* detects the falling CLK edge and walks the decoder state machine.       *)
(* Every C function of the decoder is an operator of the same name that    *)
(* maps the LPCDEC structure (a record with the C field names) to the      *)
(* structure after the call.  printf output of lpcDecStateDump is a        *)
(* sequence of event records.                                              *)
(***************************************************************************)
EXTENDS Integers, Sequences, FiniteSets, TLC

VARIABLES
    LpcDec,      \* the LPCDEC structure of main()
    g_fVerbose,  \* the global verbose flag
    uSeqNo,      \* main(): the sequence number read last
    hEdge,       \* history: what the last sample was (a falling CLK edge, LFRAME#, LAD)
    out,         \* the lines lpcDecStateDump printed during the last loop iteration
    hCycle,      \* history: start sequence number and the nibbles the current cycle consumed
    hOrder,      \* history: what was printed before (sequence number of the last line)
    iScript,     \* position in the scripted capture (scripted specifications only)
    BufFile,     \* the LPCDECFILEBUFREAD structure and the capture file behind it
    hLad         \* history: the last sample byte and the LAD nibble extracted from it

vars == <<LpcDec, g_fVerbose, uSeqNo, hEdge, out, hCycle, hOrder, iScript, BufFile, hLad>>

(***************************************************************************)
(* Program constants.                                                      *)
(***************************************************************************)
LPC_DEC_START_TARGET_CYCLE == 0
LPC_DEC_START_ABORT == 15

LPC_DEC_CYC_TYPE_IO == 0
LPC_DEC_CYC_TYPE_MEM == 1
LPC_DEC_CYC_TYPE_DMA == 2
LPC_DEC_CYC_TYPE_RSVD == 3
LPC_DEC_CYC_DIR_READ == 0

LPCDECSTATE_INVALID == 0
LPCDECSTATE_LFRAME_WAIT_ASSERTED == 1
LPCDECSTATE_START == 2
LPCDECSTATE_ADDR == 3
LPCDECSTATE_DATA == 4
LPCDECSTATE_TAR == 5
LPCDECSTATE_SYNC == 6

\* Number of entries of LPCDEC.aenmState.
AENM_STATE_ENTRIES == 9

\* Widths of the C integer types the decoder computes in.  A uint32_t is held
\* as two 16-bit halves, [hi, lo], with value hi * 2^16 + lo.
UINT8_MOD == 256
UINT16_MOD == 65536

(***************************************************************************)
(* C integer arithmetic.                                                   *)
(***************************************************************************)
RECURSIVE BitAnd(_, _)
\* a & b on non-negative integers.
BitAnd(a, b) ==
    IF a = 0 \/ b = 0 THEN 0
    ELSE (IF a % 2 = 1 /\ b % 2 = 1 THEN 1 ELSE 0) + 2 * BitAnd(a \div 2, b \div 2)

RECURSIVE BitOr(_, _)
\* a | b on non-negative integers.
BitOr(a, b) ==
    IF a = 0 THEN b
    ELSE IF b = 0 THEN a
    ELSE (IF a % 2 = 1 \/ b % 2 = 1 THEN 1 ELSE 0) + 2 * BitOr(a \div 2, b \div 2)

\* a << n on an int, of which the bits 0..30 are kept (every use ANDs the
\* result with a uint8_t or ORs it into one).  A count of 32 or more is
\* undefined behaviour in C; the shift instruction of the x86-64 builds takes
\* the count modulo 32.
Shl(a, n) ==
    LET m == n % 32 IN
    IF m = 0 THEN a ELSE IF m = 31 THEN 0 ELSE (a % (2 ^ (31 - m))) * (2 ^ m)

\* a >> n for 0 <= a < 2^31, the count taken modulo 32 likewise.
Shr(a, n) ==
    LET m == n % 32 IN IF m = 31 THEN 0 ELSE a \div (2 ^ m)

\* The uint32_t zero.
U32Zero == [hi |-> 0, lo |-> 0]

\* The uint32_t of value n, 0 <= n < 2^31.
U32Of(n) == [hi |-> n \div UINT16_MOD, lo |-> n % UINT16_MOD]

\* A uint64_t is held as two uint32_t halves, [hi, lo].  U64Of(n) is the
\* uint64_t of the integer n taken modulo 2^64, -2^31 <= n < 2^31: -1 is
\* UINT64_MAX.
U64Of(n) ==
    IF n >= 0 THEN [hi |-> U32Zero, lo |-> U32Of(n)]
    ELSE [hi |-> [hi |-> UINT16_MOD - 1, lo |-> UINT16_MOD - 1],
          lo |-> [hi |-> (UINT16_MOD - 1) - ((-n - 1) \div UINT16_MOD),
                  lo |-> (UINT16_MOD - 1) - ((-n - 1) % UINT16_MOD)]]

\* a < b on uint32_t and uint64_t values.
U32Lt(a, b) == a.hi < b.hi \/ (a.hi = b.hi /\ a.lo < b.lo)
U64Lt(a, b) == U32Lt(a.hi, b.hi) \/ (a.hi = b.hi /\ U32Lt(a.lo, b.lo))

\* A 32-bit word that is no constant of the enumeration LPCDECSTATE.
NoStateWord == 2147483647

\* The value of a 32-bit word read as an LPCDECSTATE, which the code compares
\* with the constants of the enumeration and prints by name: every word of
\* 2^31 - 1 and above (<UNKNOWN>) is NoStateWord.
EnumOfU32(u) ==
    IF u.hi < UINT16_MOD \div 2 THEN u.hi * UINT16_MOD + u.lo ELSE NoStateWord

\* u32 | (b << n) as a uint32_t, for a uint8_t b: the bits of b << n below
\* 2^32, ORed into the halves.  A count n of 32 or more is undefined
\* behaviour in C; the shift instruction of the x86-64 build takes the count
\* modulo 32.
U32OrShl(u32, b, n) ==
    LET m == n % 32 IN
    IF m < 16 THEN
        [hi |-> BitOr(u32.hi, Shr(Shl(b, m), 16) % UINT16_MOD),
         lo |-> BitOr(u32.lo, Shl(b, m) % UINT16_MOD)]
    ELSE
        [hi |-> BitOr(u32.hi, Shl(b, m - 16) % UINT16_MOD), lo |-> u32.lo]

\* !!(bSample & (1 << bit))
TestBit(bSample, bit) == IF BitAnd(bSample, Shl(1, bit)) # 0 THEN 1 ELSE 0

\* LPC_DEC_CYC_TYPE_GET(a_Lad)
LPC_DEC_CYC_TYPE_GET(a_Lad) == Shr(BitAnd(a_Lad, 12), 2)

\* Mutant: the direction is taken from bit 0.
LPC_DEC_CYC_DIR_IS_READMutBit0(a_Lad) == BitAnd(a_Lad, 1) = LPC_DEC_CYC_DIR_READ

\* LPC_DEC_CYC_DIR_IS_READ(a_Lad)
LPC_DEC_CYC_DIR_IS_READ(a_Lad) == BitAnd(a_Lad, 2) = LPC_DEC_CYC_DIR_READ

(***************************************************************************)
(* The decoder.  A call state s is [d |-> the LPCDEC structure,            *)
(* o |-> the lines printed so far during this call].                       *)
(***************************************************************************)

\* Number of 32-bit words of the LPCDEC structure from aenmState[0] to its end
\* in the x86-64 build: aenmState[0..8], the two halves of uSeqNoCycle, the
\* eight uint8_t fields after it, u32Addr, and bData with the three padding
\* bytes that follow it.
AENM_WORDS_IN_STRUCT == 15

\* Whether the word aenmState[i] is one the model does not hold: an entry of
\* the array above idxState that was dropped, a word after the structure that
\* is not in awAfter, or one before the structure (idxState - 1 of a uint32_t
\* idxState of 0 is index 2^32 - 1).  What a read of it does is not defined
\* by the model (the builds read another object or are killed by SIGSEGV).
AenmUnknown(d, i) ==
    /\ i \notin DOMAIN d.aenmState
    /\ i \notin AENM_STATE_ENTRIES..(AENM_WORDS_IN_STRUCT - 1)
    /\ (i - AENM_WORDS_IN_STRUCT) \notin DOMAIN d.awAfter

\* pLpcDec->aenmState[i] read.  An index of AENM_STATE_ENTRIES or more is
\* undefined behaviour in C; in the x86-64 builds (little endian) the word
\* read is the one that lies at that offset of the structure or, beyond it,
\* in the words after the structure (awAfter, by word offset from its end).
AenmRead(d, i) ==
    IF i \in DOMAIN d.aenmState THEN d.aenmState[i]
    ELSE IF i = 9 THEN EnumOfU32(d.uSeqNoCycle.lo)
    ELSE IF i = 10 THEN EnumOfU32(d.uSeqNoCycle.hi)
    ELSE IF i = 11 THEN EnumOfU32([hi |-> d.bTyp + UINT8_MOD * d.fWrite,
                                   lo |-> d.fClkLast + UINT8_MOD * d.bStartLast])
    ELSE IF i = 12 THEN EnumOfU32([hi |-> d.iDataCycle + UINT8_MOD * d.cTarCycles,
                                   lo |-> d.cAddrCycles + UINT8_MOD * d.cDataCycles])
    ELSE IF i = 13 THEN EnumOfU32(d.u32Addr)
    ELSE IF i = AENM_WORDS_IN_STRUCT - 1 THEN EnumOfU32([hi |-> d.abPad \div UINT8_MOD,
                                   lo |-> d.bData + UINT8_MOD * (d.abPad % UINT8_MOD)])
    ELSE IF (i - AENM_WORDS_IN_STRUCT) \in DOMAIN d.awAfter
         THEN EnumOfU32(d.awAfter[i - AENM_WORDS_IN_STRUCT])
    ELSE NoStateWord

\* pLpcDec->aenmState[pLpcDec->idxState]
CurState(d) == AenmRead(d, d.idxState)

\* Mutant: the data byte is not cleared.
lpcDecStateResetMutKeepData(d) ==
    [d EXCEPT !.idxState = 0,
              !.u32Addr = U32Zero,
              !.iDataCycle = 0,
              !.aenmState = [i \in {0} |-> LPCDECSTATE_LFRAME_WAIT_ASSERTED]]

\* Only aenmState[0..idxState] is kept: no statement reads an entry above
\* idxState before lpcDecStateSet has written it again, so what the reset leaves
\* in the entries above 0 is dropped.
lpcDecStateReset(d) ==
    [d EXCEPT !.idxState = 0,
              !.u32Addr = U32Zero,
              !.bData = 0,
              !.iDataCycle = 0,
              !.aenmState = [i \in {0} |-> LPCDECSTATE_LFRAME_WAIT_ASSERTED]]

\* lpcDecStateInit applied to the uninitialised structure u.
lpcDecStateInit(u, u8BitClk, u8BitLFrame, u8BitLad0, u8BitLad1, u8BitLad2, u8BitLad3) ==
    lpcDecStateReset([u EXCEPT !.u8BitLClk = u8BitClk,
                               !.u8BitLFrame = u8BitLFrame,
                               !.u8BitLad0 = u8BitLad0,
                               !.u8BitLad1 = u8BitLad1,
                               !.u8BitLad2 = u8BitLad2,
                               !.u8BitLad3 = u8BitLad3,
                               !.fClkLast = 0])

\* Mutant: LAD3 taken as the least significant bit.
lpcDecStateLadExtractFromSampleMutBitOrder(d, bSample) ==
    BitOr(BitOr(BitOr(
        Shr(BitAnd(bSample, Shl(1, d.u8BitLad3)), d.u8BitLad3),
        Shl(Shr(BitAnd(bSample, Shl(1, d.u8BitLad2)), d.u8BitLad2), 1)),
        Shl(Shr(BitAnd(bSample, Shl(1, d.u8BitLad1)), d.u8BitLad1), 2)),
        Shl(Shr(BitAnd(bSample, Shl(1, d.u8BitLad0)), d.u8BitLad0), 3))

lpcDecStateLadExtractFromSample(d, bSample) ==
    BitOr(BitOr(BitOr(
        Shr(BitAnd(bSample, Shl(1, d.u8BitLad0)), d.u8BitLad0),
        Shl(Shr(BitAnd(bSample, Shl(1, d.u8BitLad1)), d.u8BitLad1), 1)),
        Shl(Shr(BitAnd(bSample, Shl(1, d.u8BitLad2)), d.u8BitLad2), 2)),
        Shl(Shr(BitAnd(bSample, Shl(1, d.u8BitLad3)), d.u8BitLad3), 3))

\* The states the verbose walk of lpcDecStateDump prints: aenmState[0..idxState].
StateChain(d) == [i \in 1..(d.idxState + 1) |-> AenmRead(d, i - 1)]

\* The line lpcDecStateDump prints, as a record of the printed values.  The
\* state chain is printed in verbose mode only.
lpcDecStateDump(d, fAbort) ==
    [uSeqNoCycle |-> d.uSeqNoCycle,
     bTyp        |-> d.bTyp,
     fWrite      |-> IF d.fWrite # 0 THEN 1 ELSE 0,
     u32Addr     |-> d.u32Addr,
     bData       |-> d.bData,
     chain       |-> IF g_fVerbose # 0 THEN StateChain(d) ELSE <<>>,
     fAbort      |-> fAbort]

\* pLpcDec->aenmState[++pLpcDec->idxState] = enmState.  That the index stays
\* below AENM_STATE_ENTRIES is the invariant C14_HistoryBounded.  A write at
\* index AENM_STATE_ENTRIES or above is undefined behaviour in C; in the
\* x86-64 build (little endian) the 32-bit word goes to the fields that follow
\* aenmState in the structure: the low and the high half of uSeqNoCycle, then
\* fClkLast..fWrite, cAddrCycles..cTarCycles, u32Addr, bData and the padding.
\* A write beyond the structure goes to the words after it (awAfter), which
\* are another object (in main() the pointer pBufFile): from then on what the
\* program does is undefined (fUb).
lpcDecStateSet(d, enmState) ==
    LET i == d.idxState + 1
        d1 == [d EXCEPT !.idxState = i]
        b0 == enmState % UINT8_MOD
        b1 == (enmState \div UINT8_MOD) % UINT8_MOD
        b2 == (enmState \div UINT16_MOD) % UINT8_MOD
        b3 == enmState \div (UINT16_MOD * UINT8_MOD)
    IN  IF i < AENM_STATE_ENTRIES THEN
            [d1 EXCEPT !.aenmState = [k \in 0..i |-> IF k = i THEN enmState ELSE d.aenmState[k]]]
        ELSE IF i = 9 THEN [d1 EXCEPT !.uSeqNoCycle.lo = U32Of(enmState)]
        ELSE IF i = 10 THEN [d1 EXCEPT !.uSeqNoCycle.hi = U32Of(enmState)]
        ELSE IF i = 11 THEN [d1 EXCEPT !.fClkLast = b0, !.bStartLast = b1,
                                       !.bTyp = b2, !.fWrite = b3]
        ELSE IF i = 12 THEN [d1 EXCEPT !.cAddrCycles = b0, !.cDataCycles = b1,
                                       !.iDataCycle = b2, !.cTarCycles = b3]
        ELSE IF i = 13 THEN [d1 EXCEPT !.u32Addr = U32Of(enmState)]
        ELSE IF i = AENM_WORDS_IN_STRUCT - 1 THEN [d1 EXCEPT !.bData = b0, !.abPad = enmState \div UINT8_MOD]
        ELSE [d1 EXCEPT !.awAfter = [k \in DOMAIN d.awAfter \cup {i - AENM_WORDS_IN_STRUCT} |->
                                        IF k = i - AENM_WORDS_IN_STRUCT THEN U32Of(enmState)
                                        ELSE d.awAfter[k]],
                        !.fUb = TRUE]

\* lpcDecStateSet followed by the assignment of one of the cycle counters.
SetData(d) == [lpcDecStateSet(d, LPCDECSTATE_DATA) EXCEPT !.cDataCycles = 2]
\* Mutant: one turn-around cycle.
SetTarMutOne(d) == [lpcDecStateSet(d, LPCDECSTATE_TAR) EXCEPT !.cTarCycles = 1]

SetTar(d) == [lpcDecStateSet(d, LPCDECSTATE_TAR) EXCEPT !.cTarCycles = 2]

\* Whether lpcDecStateDump reads a word the model does not hold (the verbose
\* walk of aenmState[0..idxState]).
DumpUnknown(d) == g_fVerbose # 0 /\ \E i \in 0..d.idxState : AenmUnknown(d, i)

\* The call state after a read of a word the model does not hold.
Undefined(s) == [s EXCEPT !.d = [s.d EXCEPT !.fUb = TRUE]]

\* The "second TAR phase" branch: print the cycle and reset.
DumpAndReset(s) ==
    IF DumpUnknown(s.d) THEN Undefined(s)
    ELSE [d |-> lpcDecStateReset(s.d), o |-> Append(s.o, lpcDecStateDump(s.d, 0))]

\* Mutant: the write branch of the TAR case compares with ADDR, as the read
\* branch does.
lpcDecStateSampleAdvanceMutTar(s) ==
    LET d == s.d
        enm == CurState(d)
    IN  IF enm = LPCDECSTATE_LFRAME_WAIT_ASSERTED THEN s
        ELSE IF enm = LPCDECSTATE_ADDR THEN
            IF d.fWrite # 0 THEN [s EXCEPT !.d = SetData(d)]
            ELSE [s EXCEPT !.d = SetTar(d)]
        ELSE IF enm = LPCDECSTATE_DATA THEN [s EXCEPT !.d = SetTar(d)]
        ELSE IF enm = LPCDECSTATE_TAR THEN
            IF AenmRead(d, d.idxState - 1) = LPCDECSTATE_ADDR
            THEN [s EXCEPT !.d = lpcDecStateSet(d, LPCDECSTATE_SYNC)]
            ELSE DumpAndReset(s)
        ELSE IF enm = LPCDECSTATE_SYNC THEN
            IF d.fWrite # 0 THEN [s EXCEPT !.d = SetTar(d)]
            ELSE [s EXCEPT !.d = SetData(d)]
        ELSE s

lpcDecStateSampleAdvance(s) ==
    LET d == s.d
        enm == CurState(d)
    IN  IF AenmUnknown(d, d.idxState) THEN Undefined(s)
        ELSE IF enm = LPCDECSTATE_LFRAME_WAIT_ASSERTED THEN s
        ELSE IF enm = LPCDECSTATE_ADDR THEN
            IF d.fWrite # 0 THEN [s EXCEPT !.d = SetData(d)]
            ELSE [s EXCEPT !.d = SetTar(d)]
        ELSE IF enm = LPCDECSTATE_DATA THEN [s EXCEPT !.d = SetTar(d)]
        ELSE IF enm = LPCDECSTATE_TAR THEN
            IF AenmUnknown(d, d.idxState - 1) THEN Undefined(s)
            ELSE IF d.fWrite # 0 THEN
                IF AenmRead(d, d.idxState - 1) = LPCDECSTATE_DATA
                THEN [s EXCEPT !.d = lpcDecStateSet(d, LPCDECSTATE_SYNC)]
                ELSE DumpAndReset(s)
            ELSE
                IF AenmRead(d, d.idxState - 1) = LPCDECSTATE_ADDR
                THEN [s EXCEPT !.d = lpcDecStateSet(d, LPCDECSTATE_SYNC)]
                ELSE DumpAndReset(s)
        ELSE IF enm = LPCDECSTATE_SYNC THEN
            IF d.fWrite # 0 THEN [s EXCEPT !.d = SetTar(d)]
            ELSE [s EXCEPT !.d = SetData(d)]
        ELSE s  \* default: printf("Unknown state"), no state change

\* Mutant: the abort start nibble is not handled.
lpcDecStateStartDecodeMutNoAbort(s, bLad) ==
    LET d == s.d IN
    IF d.bStartLast = LPC_DEC_START_TARGET_CYCLE THEN
        LET bTyp == LPC_DEC_CYC_TYPE_GET(bLad)
            d1 == [d EXCEPT !.bTyp = bTyp,
                            !.fWrite = IF LPC_DEC_CYC_DIR_IS_READ(bLad) THEN 0 ELSE 1,
                            !.u32Addr = U32Zero]
            d2 == lpcDecStateSet(d1, LPCDECSTATE_ADDR)
        IN  IF bTyp = LPC_DEC_CYC_TYPE_IO THEN [s EXCEPT !.d = [d2 EXCEPT !.cAddrCycles = 4]]
            ELSE IF bTyp = LPC_DEC_CYC_TYPE_MEM THEN [s EXCEPT !.d = [d2 EXCEPT !.cAddrCycles = 8]]
            ELSE [s EXCEPT !.d = lpcDecStateReset(d2)]
    ELSE s

\* Mutant: an unsupported cycle type does not reset the decoder.
lpcDecStateStartDecodeMutNoReset(s, bLad) ==
    LET d == s.d IN
    IF d.bStartLast = LPC_DEC_START_TARGET_CYCLE THEN
        LET bTyp == LPC_DEC_CYC_TYPE_GET(bLad)
            d1 == [d EXCEPT !.bTyp = bTyp,
                            !.fWrite = IF LPC_DEC_CYC_DIR_IS_READ(bLad) THEN 0 ELSE 1,
                            !.u32Addr = U32Zero]
            d2 == lpcDecStateSet(d1, LPCDECSTATE_ADDR)
        IN  IF bTyp = LPC_DEC_CYC_TYPE_IO THEN [s EXCEPT !.d = [d2 EXCEPT !.cAddrCycles = 4]]
            ELSE IF bTyp = LPC_DEC_CYC_TYPE_MEM THEN [s EXCEPT !.d = [d2 EXCEPT !.cAddrCycles = 8]]
            ELSE [s EXCEPT !.d = d2]
    ELSE IF d.bStartLast = LPC_DEC_START_ABORT THEN [s EXCEPT !.d = lpcDecStateReset(d)]
    ELSE s

\* Mutant: a memory cycle gets the address length of an I/O cycle.
lpcDecStateStartDecodeMutMem4(s, bLad) ==
    LET d == s.d IN
    IF d.bStartLast = LPC_DEC_START_TARGET_CYCLE THEN
        LET bTyp == LPC_DEC_CYC_TYPE_GET(bLad)
            d1 == [d EXCEPT !.bTyp = bTyp,
                            !.fWrite = IF LPC_DEC_CYC_DIR_IS_READ(bLad) THEN 0 ELSE 1,
                            !.u32Addr = U32Zero]
            d2 == lpcDecStateSet(d1, LPCDECSTATE_ADDR)
        IN  IF bTyp = LPC_DEC_CYC_TYPE_IO \/ bTyp = LPC_DEC_CYC_TYPE_MEM
            THEN [s EXCEPT !.d = [d2 EXCEPT !.cAddrCycles = 4]]
            ELSE [s EXCEPT !.d = lpcDecStateReset(d2)]
    ELSE IF d.bStartLast = LPC_DEC_START_ABORT THEN [s EXCEPT !.d = lpcDecStateReset(d)]
    ELSE s

lpcDecStateStartDecode(s, bLad) ==
    LET d == s.d IN
    IF d.bStartLast = LPC_DEC_START_TARGET_CYCLE THEN
        LET bTyp == LPC_DEC_CYC_TYPE_GET(bLad)
            d1 == [d EXCEPT !.bTyp = bTyp,
                            !.fWrite = IF LPC_DEC_CYC_DIR_IS_READ(bLad) THEN 0 ELSE 1,
                            !.u32Addr = U32Zero]
            d2 == lpcDecStateSet(d1, LPCDECSTATE_ADDR)
            \* switch (pLpcDec->bTyp) after the call: when lpcDecStateSet wrote
            \* over bTyp (index 11) the -O0 build switches on the byte in memory
            \* and the optimised builds on the value just computed; the model
            \* follows the memory and marks the outcome as not defined.
            bTypSwitch == d2.bTyp
            d3 == IF bTypSwitch = LPC_DEC_CYC_TYPE_IO THEN [d2 EXCEPT !.cAddrCycles = 4]
                  ELSE IF bTypSwitch = LPC_DEC_CYC_TYPE_MEM THEN [d2 EXCEPT !.cAddrCycles = 8]
                  ELSE lpcDecStateReset(d2)
        IN  [s EXCEPT !.d = [d3 EXCEPT !.fUb = @ \/ (bTypSwitch # bTyp)]]
    ELSE IF d.bStartLast = LPC_DEC_START_ABORT THEN [s EXCEPT !.d = lpcDecStateReset(d)]
    ELSE s

\* Mutant: the count is tested for zero before its decrement.
lpcDecStateAddrDecodeMutLateAdvance(s, bLad) ==
    LET c == (s.d.cAddrCycles + UINT8_MOD - 1) % UINT8_MOD
        d1 == [s.d EXCEPT !.cAddrCycles = c,
                          !.u32Addr = U32OrShl(@, bLad, c * 4)]
        s1 == [s EXCEPT !.d = d1]
    IN  IF s.d.cAddrCycles = 0 THEN lpcDecStateSampleAdvance(s1) ELSE s1

\* Mutant: the nibble is shifted by the count before its decrement.
lpcDecStateAddrDecodeMutShiftFirst(s, bLad) ==
    LET c == (s.d.cAddrCycles + UINT8_MOD - 1) % UINT8_MOD
        d1 == [s.d EXCEPT !.cAddrCycles = c,
                          !.u32Addr = U32OrShl(@, bLad, s.d.cAddrCycles * 4)]
        s1 == [s EXCEPT !.d = d1]
    IN  IF c = 0 THEN lpcDecStateSampleAdvance(s1) ELSE s1

lpcDecStateAddrDecode(s, bLad) ==
    LET c == (s.d.cAddrCycles + UINT8_MOD - 1) % UINT8_MOD
        d1 == [s.d EXCEPT !.cAddrCycles = c,
                          !.u32Addr = U32OrShl(@, bLad, c * 4)]
        s1 == [s EXCEPT !.d = d1]
    IN  IF c = 0 THEN lpcDecStateSampleAdvance(s1) ELSE s1

\* Mutant: the first data nibble is taken as the high one.
lpcDecStateDataDecodeMutHighFirst(s, bLad) ==
    LET i == (s.d.iDataCycle + 1) % UINT8_MOD
        d1 == [s.d EXCEPT !.bData = BitOr(@, Shl(bLad, (1 - s.d.iDataCycle) * 4)) % UINT8_MOD,
                          !.iDataCycle = i]
        s1 == [s EXCEPT !.d = d1]
    IN  IF i = s.d.cDataCycles THEN lpcDecStateSampleAdvance(s1) ELSE s1

\* Mutant: the data phase is left one nibble late.
lpcDecStateDataDecodeMutLateAdvance(s, bLad) ==
    LET i == (s.d.iDataCycle + 1) % UINT8_MOD
        d1 == [s.d EXCEPT !.bData = BitOr(@, Shl(bLad, s.d.iDataCycle * 4)) % UINT8_MOD,
                          !.iDataCycle = i]
        s1 == [s EXCEPT !.d = d1]
    IN  IF i > s.d.cDataCycles THEN lpcDecStateSampleAdvance(s1) ELSE s1

lpcDecStateDataDecode(s, bLad) ==
    LET i == (s.d.iDataCycle + 1) % UINT8_MOD
        d1 == [s.d EXCEPT !.bData = BitOr(@, Shl(bLad, s.d.iDataCycle * 4)) % UINT8_MOD,
                          !.iDataCycle = i]
        s1 == [s EXCEPT !.d = d1]
    IN  IF i = s.d.cDataCycles THEN lpcDecStateSampleAdvance(s1) ELSE s1

lpcDecStateTarDecode(s, bLad) ==
    LET c == (s.d.cTarCycles + UINT8_MOD - 1) % UINT8_MOD
        s1 == [s EXCEPT !.d = [s.d EXCEPT !.cTarCycles = c]]
    IN  IF c = 0 THEN lpcDecStateSampleAdvance(s1) ELSE s1

\* Mutant: the sync nibble is not tested.
lpcDecStateSyncDecodeMutAny(s, bLad) == lpcDecStateSampleAdvance(s)

\* Mutant: every wait state is entered into the state history.
lpcDecStateSyncDecodeMutPushWait(s, bLad) ==
    IF bLad = 0 THEN lpcDecStateSampleAdvance(s)
    ELSE [s EXCEPT !.d = lpcDecStateSet(s.d, LPCDECSTATE_SYNC)]

lpcDecStateSyncDecode(s, bLad) ==
    IF bLad = 0 THEN lpcDecStateSampleAdvance(s) ELSE s

\* Mutant: the start nibble and the sequence number are stored before the dump.
FrameAssertedMutSeqFirst(s, uSeq, bLad) ==
    LET enm == CurState(s.d)
        d1 == [s.d EXCEPT !.bStartLast = bLad, !.uSeqNoCycle = U64Of(uSeq)]
        o1 == IF    enm # LPCDECSTATE_LFRAME_WAIT_ASSERTED
                 /\ enm # LPCDECSTATE_START
              THEN Append(s.o, lpcDecStateDump(d1, 1))
              ELSE s.o
    IN  [d |-> lpcDecStateSet(lpcDecStateReset(d1), LPCDECSTATE_START), o |-> o1]

\* Mutant: the start nibble of the first edge with LFRAME# asserted is kept.
FrameAssertedMutFirstNibble(s, uSeq, bLad) ==
    LET enm == CurState(s.d)
        o1 == IF    enm # LPCDECSTATE_LFRAME_WAIT_ASSERTED
                 /\ enm # LPCDECSTATE_START
              THEN Append(s.o, lpcDecStateDump(s.d, 1))
              ELSE s.o
        d1 == IF enm = LPCDECSTATE_START THEN s.d
              ELSE [s.d EXCEPT !.bStartLast = bLad, !.uSeqNoCycle = U64Of(uSeq)]
    IN  [d |-> lpcDecStateSet(lpcDecStateReset(d1), LPCDECSTATE_START), o |-> o1]

\* Mutant: the START state is set without the reset before it.
FrameAssertedMutNoReset(s, uSeq, bLad) ==
    LET enm == CurState(s.d)
        o1 == IF    enm # LPCDECSTATE_LFRAME_WAIT_ASSERTED
                 /\ enm # LPCDECSTATE_START
              THEN Append(s.o, lpcDecStateDump(s.d, 1))
              ELSE s.o
        d1 == [s.d EXCEPT !.bStartLast = bLad, !.uSeqNoCycle = U64Of(uSeq)]
    IN  [d |-> IF enm = LPCDECSTATE_LFRAME_WAIT_ASSERTED
               THEN lpcDecStateSet(lpcDecStateReset(d1), LPCDECSTATE_START)
               ELSE lpcDecStateSet(d1, LPCDECSTATE_START),
         o |-> o1]

\* Mutant: the sequence number of the cycle is not stored.
FrameAssertedMutKeepSeq(s, uSeq, bLad) ==
    LET enm == CurState(s.d)
        o1 == IF    enm # LPCDECSTATE_LFRAME_WAIT_ASSERTED
                 /\ enm # LPCDECSTATE_START
              THEN Append(s.o, lpcDecStateDump(s.d, 1))
              ELSE s.o
        d1 == [s.d EXCEPT !.bStartLast = bLad]
    IN  [d |-> lpcDecStateSet(lpcDecStateReset(d1), LPCDECSTATE_START), o |-> o1]

\* Mutant: the test of the current state written with || for &&.
FrameAssertedMutOr(s, uSeq, bLad) ==
    LET enm == CurState(s.d)
        o1 == IF    enm # LPCDECSTATE_LFRAME_WAIT_ASSERTED
                 \/ enm # LPCDECSTATE_START
              THEN Append(s.o, lpcDecStateDump(s.d, 1))
              ELSE s.o
        d1 == [s.d EXCEPT !.bStartLast = bLad, !.uSeqNoCycle = U64Of(uSeq)]
    IN  [d |-> lpcDecStateSet(lpcDecStateReset(d1), LPCDECSTATE_START), o |-> o1]

\* The branch of lpcDecStateSampleProcess taken when LFRAME# is asserted.
FrameAsserted(s, uSeq, bLad) ==
    LET enm == CurState(s.d)
        fDump ==    enm # LPCDECSTATE_LFRAME_WAIT_ASSERTED
                 /\ enm # LPCDECSTATE_START
        o1 == IF fDump THEN Append(s.o, lpcDecStateDump(s.d, 1)) ELSE s.o
        d1 == [s.d EXCEPT !.bStartLast = bLad, !.uSeqNoCycle = U64Of(uSeq)]
    IN  IF AenmUnknown(s.d, s.d.idxState) \/ (fDump /\ DumpUnknown(s.d)) THEN Undefined(s)
        ELSE [d |-> lpcDecStateSet(lpcDecStateReset(d1), LPCDECSTATE_START), o |-> o1]

\* The switch of lpcDecStateSampleProcess taken when LFRAME# is not asserted.
StateDispatch(s, bLad) ==
    LET enm == CurState(s.d) IN
    IF AenmUnknown(s.d, s.d.idxState) THEN Undefined(s)
    ELSE IF enm = LPCDECSTATE_LFRAME_WAIT_ASSERTED THEN s
    ELSE IF enm = LPCDECSTATE_START THEN lpcDecStateStartDecode(s, bLad)
    ELSE IF enm = LPCDECSTATE_ADDR THEN lpcDecStateAddrDecode(s, bLad)
    ELSE IF enm = LPCDECSTATE_DATA THEN lpcDecStateDataDecode(s, bLad)
    ELSE IF enm = LPCDECSTATE_TAR THEN lpcDecStateTarDecode(s, bLad)
    ELSE IF enm = LPCDECSTATE_SYNC THEN lpcDecStateSyncDecode(s, bLad)
    ELSE s  \* default: printf("Unknown state"), no state change

\* Mutant: the switch runs on every falling edge and the LFRAME# branch follows
\* it, testing the state the call started in.
lpcDecStateSampleProcessMutNoElse(d, uSeq, bSample) ==
    LET fClk == TestBit(bSample, d.u8BitLClk)
        s0 == [d |-> d, o |-> <<>>]
    IN  IF fClk = d.fClkLast THEN s0
        ELSE
            LET s1 == IF d.fClkLast # 0 /\ fClk = 0 THEN
                          LET fLFrame == TestBit(bSample, d.u8BitLFrame)
                              bLad == lpcDecStateLadExtractFromSample(d, bSample)
                              enm == CurState(d)
                              sd == StateDispatch(s0, bLad)
                              o1 == IF    enm # LPCDECSTATE_LFRAME_WAIT_ASSERTED
                                       /\ enm # LPCDECSTATE_START
                                    THEN Append(sd.o, lpcDecStateDump(sd.d, 1))
                                    ELSE sd.o
                              d1 == [sd.d EXCEPT !.bStartLast = bLad, !.uSeqNoCycle = U64Of(uSeq)]
                          IN  IF fLFrame = 0
                              THEN [d |-> lpcDecStateSet(lpcDecStateReset(d1), LPCDECSTATE_START),
                                    o |-> o1]
                              ELSE sd
                      ELSE s0
            IN  [s1 EXCEPT !.d = [s1.d EXCEPT !.fClkLast = fClk]]

\* Mutant: the signals are sampled on every CLK edge, rising ones included.
lpcDecStateSampleProcessMutAnyEdge(d, uSeq, bSample) ==
    LET fClk == TestBit(bSample, d.u8BitLClk)
        s0 == [d |-> d, o |-> <<>>]
    IN  IF fClk = d.fClkLast THEN s0
        ELSE
            LET fLFrame == TestBit(bSample, d.u8BitLFrame)
                bLad == lpcDecStateLadExtractFromSample(d, bSample)
                s1 == IF fLFrame = 0 THEN FrameAsserted(s0, uSeq, bLad)
                      ELSE StateDispatch(s0, bLad)
            IN  [s1 EXCEPT !.d = [s1.d EXCEPT !.fClkLast = fClk]]

lpcDecStateSampleProcess(d, uSeq, bSample) ==
    LET fClk == TestBit(bSample, d.u8BitLClk)
        s0 == [d |-> d, o |-> <<>>]
    IN  IF fClk = d.fClkLast THEN s0
        ELSE
            LET s1 == IF d.fClkLast # 0 /\ fClk = 0 THEN
                          LET fLFrame == TestBit(bSample, d.u8BitLFrame)
                              bLad == lpcDecStateLadExtractFromSample(d, bSample)
                          IN  IF fLFrame = 0 THEN FrameAsserted(s0, uSeq, bLad)
                              ELSE StateDispatch(s0, bLad)
                      ELSE s0
            IN  [s1 EXCEPT !.d = [s1.d EXCEPT !.fClkLast = fClk]]

(***************************************************************************)
(* The capture and main().                                                 *)
(***************************************************************************)

\* Largest sequence number of a modelled capture.
MaxSeq == 1
\* The same for the captures that order the printed lines.
MaxSeqOrder == 11

\* Values left on the stack in the fields lpcDecStateInit does not assign.
StackBytes == {0, 255}

\* The LPCDEC structure of main() before lpcDecStateInit, every byte of it b.
\* idxState, aenmState[0] and u32Addr, which lpcDecStateInit assigns before
\* any statement reads them, are given as 0; abPad is the three padding bytes
\* after bData, awAfter the words after the structure that lpcDecStateSet has
\* written, and fUb whether the program has done something whose outcome the
\* model does not define.
UninitLpcDec(b) ==
    [u8BitLClk |-> b, u8BitLFrame |-> b, u8BitLad0 |-> b, u8BitLad1 |-> b,
     u8BitLad2 |-> b, u8BitLad3 |-> b,
     idxState |-> 0,
     aenmState |-> [i \in {0} |-> LPCDECSTATE_INVALID],
     uSeqNoCycle |-> [hi |-> [hi |-> b * (UINT8_MOD + 1), lo |-> b * (UINT8_MOD + 1)],
                      lo |-> [hi |-> b * (UINT8_MOD + 1), lo |-> b * (UINT8_MOD + 1)]],
     fClkLast |-> b, bStartLast |-> b, bTyp |-> b, fWrite |-> b,
     cAddrCycles |-> b, cDataCycles |-> b, iDataCycle |-> b, cTarCycles |-> b,
     u32Addr |-> U32Zero, bData |-> b,
     abPad |-> b * (UINT16_MOD + UINT8_MOD + 1),
     awAfter |-> <<>>, fUb |-> FALSE]

\* A sample byte of a capture taken with the reference wiring of main():
\* CLK on bit 0, LFRAME# on bit 1, LAD[0..3] on bits 5, 4, 3, 2; bHi is bits 7..6.
MkSample(fClk, fLFrame, bLad, bHi) ==
      fClk + 2 * fLFrame
    + 32 * (bLad % 2) + 16 * ((bLad \div 2) % 2)
    + 8 * ((bLad \div 4) % 2) + 4 * ((bLad \div 8) % 2)
    + 64 * bHi

Nibbles == 0..15

\* What the modelled captures hold: the LAD values driven in each phase of a
\* cycle (start: with LFRAME# asserted; off: on samples that are no falling
\* edge), the LFRAME# levels on samples that are no falling edge, the values of
\* the unused bits 7..6, and the sequence-number increments.
\* EnvAny: every start and cycle-type nibble, one address and one data value,
\* every sample with sequence number 0.
EnvAny ==
    [start |-> {0, 1, 15}, cls |-> Nibbles, addr |-> {9}, data |-> {6},
     tar |-> {0, 15}, sync |-> {0, 5}, idle |-> {0, 15}, off |-> {0, 15},
     frameOff |-> {0, 1}, hi |-> {0}, incs |-> {0}, maxSeq |-> 0,
     order |-> FALSE]

\* EnvValues: I/O and memory reads and writes over several address and data values.
EnvValues ==
    [start |-> {0}, cls |-> {0, 2, 4, 6}, addr |-> {1, 14}, data |-> {2, 4, 11},
     tar |-> {0}, sync |-> {0}, idle |-> {0}, off |-> {15},
     frameOff |-> {1}, hi |-> {0}, incs |-> {0, 1}, maxSeq |-> MaxSeq,
     order |-> FALSE]

\* EnvOrder: I/O cycles of zero nibbles over long captures.
EnvOrder ==
    [start |-> {0}, cls |-> {0, 2}, addr |-> {0}, data |-> {0},
     tar |-> {0}, sync |-> {0}, idle |-> {0}, off |-> {0},
     frameOff |-> {1}, hi |-> {0}, incs |-> {0, 1}, maxSeq |-> MaxSeqOrder,
     order |-> TRUE]

\* Captures with several start nibbles and sequence numbers that vary.
EnvStart ==
    [start |-> {0, 5, 15}, cls |-> {0, 6, 8}, addr |-> {3}, data |-> {6},
     tar |-> {0}, sync |-> {0, 5}, idle |-> {0}, off |-> {15},
     frameOff |-> {1}, hi |-> {0}, incs |-> {0, 1}, maxSeq |-> MaxSeq,
     order |-> FALSE]

IsFalling(d, fClk) == d.fClkLast # 0 /\ fClk = 0

\* The LAD values a capture can hold on a sample, given what the bus is doing.
LadFor(env, d, fClk, fLFrame) ==
    IF ~IsFalling(d, fClk) THEN env.off
    ELSE IF fLFrame = 0 THEN env.start
    ELSE LET enm == CurState(d) IN
         IF enm = LPCDECSTATE_START THEN env.cls
         ELSE IF enm = LPCDECSTATE_ADDR THEN env.addr
         ELSE IF enm = LPCDECSTATE_DATA THEN env.data
         ELSE IF enm = LPCDECSTATE_TAR THEN env.tar
         ELSE IF enm = LPCDECSTATE_SYNC THEN env.sync
         ELSE env.idle

FrameFor(env, d, fClk) == IF IsFalling(d, fClk) THEN {0, 1} ELSE env.frameOff

\* History of the cycle in progress: the sequence number of the sample that
\* started it, the LAD nibble sampled on the edge after the start (-1: none yet),
\* the LAD nibbles sampled in its address and data phases, and whether the
\* last falling edges had LFRAME# asserted (0: the last one had not, 1: the last
\* one had, 2: the last two or more had).
NoCycle == [uSeqStart |-> 0, cls |-> -1, addr |-> <<>>, data |-> <<>>, cAsserted |-> 0]

NextCycleHistory(d, dNew, uSeq, fClk, fLFrame, bLad) ==
    LET enm == CurState(d)
        h == IF ~IsFalling(d, fClk) THEN hCycle
             ELSE IF fLFrame = 0
                  THEN [NoCycle EXCEPT !.uSeqStart = uSeq,
                                       !.cAsserted = IF hCycle.cAsserted = 0 THEN 1 ELSE 2]
             ELSE IF enm = LPCDECSTATE_START THEN [hCycle EXCEPT !.cls = bLad, !.cAsserted = 0]
             ELSE IF enm = LPCDECSTATE_ADDR THEN [hCycle EXCEPT !.addr = Append(@, bLad)]
             ELSE IF enm = LPCDECSTATE_DATA THEN [hCycle EXCEPT !.data = Append(@, bLad)]
             ELSE hCycle
    IN  IF CurState(dNew) = LPCDECSTATE_LFRAME_WAIT_ASSERTED THEN NoCycle ELSE h

\* History of the printed lines: the sequence number of the last line (<<>>: none),
\* whether a line was printed before that one, whether every sample so far had a
\* larger sequence number than the one before, and whether the cycle in progress
\* has printed a line.
NoOrder == [last |-> <<>>, second |-> FALSE, strict |-> TRUE, reported |-> FALSE]

\* The sequence number u is larger than (not smaller than) the one of the last
\* line printed, if any.
AfterLast(u) == hOrder.last = <<>> \/ U64Lt(hOrder.last[1], u)
NotBeforeLast(u) == hOrder.last = <<>> \/ ~U64Lt(u, hOrder.last[1])

NextOrderHistory(d, o, inc, fClk, fLFrame) ==
    [last     |-> IF o # <<>> THEN <<o[Len(o)].uSeqNoCycle>> ELSE hOrder.last,
     second   |-> IF o # <<>> THEN hOrder.last # <<>> ELSE hOrder.second,
     strict   |-> hOrder.strict /\ inc > 0,
     reported |-> IF IsFalling(d, fClk) /\ fLFrame = 0 THEN FALSE
                  ELSE IF o # <<>> THEN TRUE
                  ELSE hOrder.reported]

\* History of the last sample: whether it was a falling CLK edge and, if so,
\* the LFRAME# level and the LAD nibble the capture held on it.
NoEdge == [fall |-> FALSE, fLFrame |-> 1, bLad |-> 0]

\* The body of the loop of main(): a sequence number and a sample are read and
\* the sample is processed.  bVal of main() is dead once the call returns and
\* is not kept.  After a step whose outcome the model does not define (fUb)
\* no further iteration is modelled.
LoopBody(inc, fClk, fLFrame, bLad, bHi, order) ==
    /\ ~LpcDec.fUb
    /\ uSeqNo' = uSeqNo + inc
    /\ hEdge' = IF IsFalling(LpcDec, fClk)
                THEN [fall |-> TRUE, fLFrame |-> fLFrame, bLad |-> bLad]
                ELSE NoEdge
    /\ LET s == lpcDecStateSampleProcess(LpcDec, uSeqNo', MkSample(fClk, fLFrame, bLad, bHi)) IN
        /\ LpcDec' = s.d
        /\ out' = s.o
        /\ hCycle' = NextCycleHistory(LpcDec, s.d, uSeqNo', fClk, fLFrame, bLad)
        /\ hOrder' = IF order THEN NextOrderHistory(LpcDec, s.o, inc, fClk, fLFrame)
                     ELSE hOrder
    /\ UNCHANGED g_fVerbose

\* One iteration of the loop of main() over a capture of env.
MainLoop(env) ==
    \E inc \in env.incs, fClk \in {0, 1}, bHi \in env.hi :
    \E fLFrame \in FrameFor(env, LpcDec, fClk) :
    \E bLad \in LadFor(env, LpcDec, fClk, fLFrame) :
        /\ uSeqNo + inc <= env.maxSeq
        /\ LoopBody(inc, fClk, fLFrame, bLad, bHi, env.order)
        /\ UNCHANGED <<iScript, BufFile, hLad>>

\* The scripted capture of a memory write: for each falling edge the LFRAME#
\* level and the LAD values the capture may hold.  Start nibble 0, the cycle
\* type and direction nibble cls, address nibbles 1,2,3,4,0,0,0,0, data nibbles
\* B,A, two turn-around edges, a zero sync nibble, two turn-around edges.
ScriptEdges(cls) ==
    <<[f |-> 0, lad |-> {0}], [f |-> 1, lad |-> {cls}],
      [f |-> 1, lad |-> {1}], [f |-> 1, lad |-> {2}], [f |-> 1, lad |-> {3}],
      [f |-> 1, lad |-> {4}], [f |-> 1, lad |-> {0}], [f |-> 1, lad |-> {0}],
      [f |-> 1, lad |-> {0}], [f |-> 1, lad |-> {0}],
      [f |-> 1, lad |-> {11}], [f |-> 1, lad |-> {10}],
      [f |-> 1, lad |-> Nibbles], [f |-> 1, lad |-> Nibbles],
      [f |-> 1, lad |-> {0}],
      [f |-> 1, lad |-> Nibbles], [f |-> 1, lad |-> Nibbles]>>

\* The type and direction nibbles the script is run with.
ScriptClasses == {5, 6, 7}

NoScript == [cls |-> 0, pos |-> 0, log |-> <<>>]

\* One iteration of the loop of main() over the scripted capture: a rising
\* edge, then the next falling edge of the script.  iScript.log collects the
\* printed lines.
ScriptLoop ==
    LET edges == ScriptEdges(iScript.cls)
        k == iScript.pos + 1
    IN  /\ k <= 2 * Len(edges)
        /\ IF k % 2 = 1
           THEN \E fLFrame \in {0, 1}, bLad \in {0, 15} :
                    LoopBody(1, 1, fLFrame, bLad, 0, FALSE)
           ELSE \E bLad \in edges[k \div 2].lad :
                    LoopBody(1, 0, edges[k \div 2].f, bLad, 0, FALSE)
        /\ iScript' = [iScript EXCEPT !.pos = k, !.log = @ \o out']
        /\ UNCHANGED <<BufFile, hLad>>

(***************************************************************************)
(* The buffered file reader.  The capture file is a run of 9 byte records  *)
(* (a 64 bit sequence number, a sample byte), possibly followed by the     *)
(* first bytes of a truncated record.  The modelled files are shorter than *)
(* abBuf, so lpcDecFileBufReaderCreate reads all of the file and buffer    *)
(* position p holds file byte p until the refill at the end of the file.   *)
(***************************************************************************)

\* sizeof(pBufFile->abBuf)
ABBUF_SIZE == 65536
\* sizeof(uint64_t), sizeof(uint8_t) and the size of one record of the capture
CB_U64 == 8
CB_U8 == 1
CB_RECORD == 9

\* Largest number of complete records of a modelled capture file.
MaxRecords == 34

\* No reader: the specifications that draw the samples from an alphabet.
NoBufFile ==
    [pc |-> "none", cRecords |-> 0, cbTail |-> 0, bFirst |-> 0, cbLeft |-> 0,
     cbData |-> 0, offBuf |-> 0, fError |-> 0, fEos |-> 0, fUb |-> FALSE, cCalls |-> 0]

Min(a, b) == IF a <= b THEN a ELSE b

\* lpcDecFileBufReaderCreate on a file of cRecords records and cbTail further
\* bytes whose first byte is bFirst: calloc, the first fread, and rc = -1
\* (pc "failed": main() does not enter the loop) when nothing was read.
\* cRecords, cbTail, bFirst, cbLeft (the bytes of the file not read yet) and
\* cCalls (the calls of lpcDecStateSampleProcess) describe the file and the
\* run; the other fields are those of LPCDECFILEBUFREAD.
lpcDecFileBufReaderCreate(cRecords, cbTail, bFirst) ==
    LET cbFile == cRecords * CB_RECORD + cbTail
        cbRead == Min(ABBUF_SIZE, cbFile)
    IN  [pc |-> IF cbRead # 0 THEN "loop" ELSE "failed",
         cRecords |-> cRecords, cbTail |-> cbTail, bFirst |-> bFirst,
         cbLeft |-> cbFile - cbRead,
         cbData |-> cbRead, offBuf |-> 0, fError |-> 0, fEos |-> 0,
         fUb |-> FALSE, cCalls |-> 0]

lpcDecFileBufReaderHasError(b) == b.fError
lpcDecFileBufReaderHasEos(b) == b.fEos

\* lpcDecFileBufReaderEnsureData.  cbRem = cbData - offBuf is a size_t: with
\* offBuf beyond cbData it wraps to nearly 2^64 and the memmove of cbRem bytes
\* is undefined behaviour (fUb).
lpcDecFileBufReaderEnsureData(b, cbData) ==
    IF b.offBuf + cbData <= b.cbData THEN b
    ELSE IF b.cbData < b.offBuf THEN [b EXCEPT !.fUb = TRUE]
    ELSE
        LET cbRem == b.cbData - b.offBuf
            cbRead == Min(ABBUF_SIZE - cbRem, b.cbLeft)
        IN  [b EXCEPT !.cbLeft = @ - cbRead,
                      !.cbData = cbRead + cbRem,
                      !.offBuf = 0,
                      !.fEos = IF cbRead = 0 THEN 1 ELSE @]

\* lpcDecFileBufReaderGetU64 and lpcDecFileBufReaderGetU8: the reader after the
\* call, whether the call returned the error value (UINT64_MAX, UINT8_MAX:
\* fError is set; lpcDecFileBufReaderEnsureData always returns 0), the buffer
\* offset read from and whether the bytes returned lie inside the cbData valid
\* bytes.
lpcDecFileBufReaderGetU64(b) ==
    IF lpcDecFileBufReaderHasError(b) # 0
    THEN [b |-> b, fErr |-> TRUE, off |-> b.offBuf, valid |-> FALSE]
    ELSE LET b1 == lpcDecFileBufReaderEnsureData(b, CB_U64) IN
         [b |-> [b1 EXCEPT !.offBuf = @ + CB_U64],
          fErr |-> FALSE,
          off |-> b1.offBuf,
          valid |-> ~b1.fUb /\ b1.offBuf + CB_U64 <= b1.cbData]

lpcDecFileBufReaderGetU8(b) ==
    IF lpcDecFileBufReaderHasError(b) # 0
    THEN [b |-> b, fErr |-> TRUE, off |-> b.offBuf, valid |-> FALSE]
    ELSE LET b1 == lpcDecFileBufReaderEnsureData(b, CB_U8) IN
         [b |-> [b1 EXCEPT !.offBuf = @ + CB_U8],
          fErr |-> FALSE,
          off |-> b1.offBuf,
          valid |-> ~b1.fUb /\ b1.offBuf + CB_U8 <= b1.cbData]

\* The sample byte of record k of the modelled capture: the scripted memory
\* write (LAD 1111 on the turn-around edges), each falling edge preceded by a
\* rising edge with the same levels, and an idle bus after it.
CaptureSample(k) ==
    LET edges == ScriptEdges(6)
        i == (k + 1) \div 2
    IN  IF i > Len(edges) THEN MkSample(k % 2, 1, 15, 0)
        ELSE MkSample(k % 2, edges[i].f,
                      IF edges[i].lad = Nibbles THEN 15 ELSE CHOOSE x \in edges[i].lad : TRUE, 0)

\* Bytes a read that is undefined behaviour may deliver.
UbBytes == {0, 2, 3, 255}

\* The loop body on a raw sample byte.
ProcessByte(inc, bVal) ==
    LoopBody(inc, TestBit(bVal, LpcDec.u8BitLClk), TestBit(bVal, LpcDec.u8BitLFrame),
             lpcDecStateLadExtractFromSample(LpcDec, bVal), bVal \div 64, FALSE)

\* One iteration of the loop of main() over the file reader: the loop test,
\* GetU64, GetU8, lpcDecStateSampleProcess.  The sequence numbers of the file
\* count up by one from that of the first record (whose low byte is bFirst).
\* A byte read at buffer position 0 outside the valid bytes is the byte the
\* first fread left there, bFirst.  When the reads are undefined behaviour
\* the run either ends (pc "crashed") or goes on with some byte.  A getter
\* that returns its error value hands on UINT64_MAX (the sequence number -1
\* modulo 2^64) or UINT8_MAX.
ReaderLoop ==
    /\ BufFile.pc = "loop"
    /\ lpcDecFileBufReaderHasEos(BufFile) = 0
    /\ LET r64 == lpcDecFileBufReaderGetU64(BufFile)
           r8 == lpcDecFileBufReaderGetU8(r64.b)
           inc == IF r64.fErr THEN -1 - uSeqNo
                  ELSE IF BufFile.cCalls = 0 THEN BufFile.bFirst ELSE 1
       IN  IF r8.b.fUb
           THEN \/ /\ BufFile' = [r8.b EXCEPT !.pc = "crashed"]
                   /\ UNCHANGED <<LpcDec, g_fVerbose, uSeqNo, hEdge, out, hCycle, hOrder>>
                \/ \E bVal \in UbBytes, i \in {0, 1} :
                       /\ ProcessByte(i, bVal)
                       /\ BufFile' = [r8.b EXCEPT !.cCalls = @ + 1]
           ELSE /\ ProcessByte(inc, IF r8.fErr THEN UINT8_MOD - 1
                                    ELSE IF r8.valid THEN CaptureSample(BufFile.cCalls + 1)
                                    ELSE BufFile.bFirst)
                /\ BufFile' = [r8.b EXCEPT !.cCalls = @ + 1]
    /\ UNCHANGED <<iScript, hLad>>

\* The loop of main() ends on the end of the stream: lpcDecFileBufReaderClose.
ReaderClose ==
    /\ BufFile.pc = "loop"
    /\ lpcDecFileBufReaderHasEos(BufFile) # 0
    /\ BufFile' = [BufFile EXCEPT !.pc = "closed"]
    /\ UNCHANGED <<LpcDec, g_fVerbose, uSeqNo, hEdge, out, hCycle, hOrder, iScript, hLad>>

\* Largest number of samples of a capture of arbitrary sample bytes.
MaxSamplesLad == 3

NoLad == [bVal |-> 0, bLad |-> 0]

\* One iteration of the loop of main() on any of the 256 sample bytes; hLad
\* keeps the byte and what lpcDecStateLadExtractFromSample makes of it.
LadLoop ==
    \E bVal \in 0..(UINT8_MOD - 1) :
        /\ uSeqNo < MaxSamplesLad
        /\ ProcessByte(1, bVal)
        /\ hLad' = [bVal |-> bVal, bLad |-> lpcDecStateLadExtractFromSample(LpcDec, bVal)]
        /\ UNCHANGED <<iScript, BufFile>>

\* main() up to the loop, for the given stack contents and verbose flags.
InitMain(stack, verbose) ==
    /\ LpcDec \in { lpcDecStateInit(UninitLpcDec(b), 0, 1, 5, 4, 3, 2) : b \in stack }
    /\ g_fVerbose \in verbose
    /\ uSeqNo = 0
    /\ hEdge = NoEdge
    /\ out = <<>>
    /\ hCycle = NoCycle
    /\ hOrder = NoOrder

Init == InitMain(StackBytes, {0, 1}) /\ iScript = NoScript /\ BufFile = NoBufFile /\ hLad = NoLad

Next == MainLoop(EnvAny)

Spec == Init /\ [][Next]_vars

InitValues == InitMain({0}, {0}) /\ iScript = NoScript /\ BufFile = NoBufFile /\ hLad = NoLad

NextValues == MainLoop(EnvValues)

SpecValues == InitValues /\ [][NextValues]_vars

InitOrder == InitMain({0}, {0}) /\ iScript = NoScript /\ BufFile = NoBufFile /\ hLad = NoLad

NextOrder == MainLoop(EnvOrder)

SpecOrder == InitOrder /\ [][NextOrder]_vars

InitStart == InitMain(StackBytes, {0}) /\ iScript = NoScript /\ BufFile = NoBufFile /\ hLad = NoLad

NextStart == MainLoop(EnvStart)

SpecStart == InitStart /\ [][NextStart]_vars

InitScript ==
    /\ InitMain(StackBytes, {0, 1})
    /\ iScript \in { [NoScript EXCEPT !.cls = c] : c \in ScriptClasses }
    /\ BufFile = NoBufFile
    /\ hLad = NoLad

NextScript == ScriptLoop

SpecScript == InitScript /\ [][NextScript]_vars

\* main() over capture files of up to MaxRecords records, complete or cut
\* short inside a record, whose first sequence number is 1 or 2.
InitReader ==
    /\ InitMain({0}, {1})
    /\ iScript = NoScript
    /\ BufFile \in { lpcDecFileBufReaderCreate(n, cb, b) :
                        n \in 0..MaxRecords, cb \in 0..(CB_RECORD - 1), b \in {1, 2} }
    /\ hLad = NoLad

NextReader == ReaderLoop \/ ReaderClose

SpecReader == InitReader /\ [][NextReader]_vars

\* main() over short captures of arbitrary sample bytes.
InitLad == InitMain({0}, {0}) /\ iScript = NoScript /\ BufFile = NoBufFile /\ hLad = NoLad

NextLad == LadLoop

SpecLad == InitLad /\ [][NextLad]_vars

(***************************************************************************)
(* Properties.                                                             *)
(***************************************************************************)

HasAborted(o) == \E i \in 1..Len(o) : o[i].fAbort = 1
HasCompleted(o) == \E i \in 1..Len(o) : o[i].fAbort = 0

\* The step processes a falling CLK edge with LFRAME# asserted (0) or not (1).
FallingEdge(fLFrame) == hEdge'.fall /\ hEdge'.fLFrame = fLFrame

\* The step processes a falling edge with LFRAME# asserted in the middle of a cycle.
MidCycleAssert ==
    /\ FallingEdge(0)
    /\ CurState(LpcDec) # LPCDECSTATE_LFRAME_WAIT_ASSERTED
    /\ CurState(LpcDec) # LPCDECSTATE_START

\* C1: a falling edge with LFRAME# asserted while the current state is ADDR,
\* DATA, TAR or SYNC prints exactly one line, marked <ABORT>, for the
\* interrupted cycle (in verbose mode it shows the state chain of that cycle,
\* which ends in the interrupted state, not in the START of the next cycle);
\* no other step prints a line marked <ABORT>.
C1_AbortOnMidCycleFrame ==
    [][ /\ MidCycleAssert =>
            /\ Len(out') = 1
            /\ out'[1].fAbort = 1
            /\ g_fVerbose # 0 => out'[1].chain = StateChain(LpcDec)
            /\ CurState(LpcDec') = LPCDECSTATE_START
        /\ ~MidCycleAssert => ~HasAborted(out') ]_vars

C1_Witness ==
    /\ HasAborted(out)
    /\ g_fVerbose # 0
    /\ out[1].chain[Len(out[1].chain)] = LPCDECSTATE_SYNC

ChainWrite ==
    <<LPCDECSTATE_LFRAME_WAIT_ASSERTED, LPCDECSTATE_START, LPCDECSTATE_ADDR,
      LPCDECSTATE_DATA, LPCDECSTATE_TAR, LPCDECSTATE_SYNC, LPCDECSTATE_TAR>>

ChainRead ==
    <<LPCDECSTATE_LFRAME_WAIT_ASSERTED, LPCDECSTATE_START, LPCDECSTATE_ADDR,
      LPCDECSTATE_TAR, LPCDECSTATE_SYNC, LPCDECSTATE_DATA, LPCDECSTATE_TAR>>

\* The number of TAR states in the history of d.
TarCount(d) == Cardinality({i \in 0..d.idxState : d.aenmState[i] = LPCDECSTATE_TAR})

\* The step processes the last edge of the second TAR phase of a cycle.
SecondTarFinishes ==
    /\ FallingEdge(1)
    /\ CurState(LpcDec) = LPCDECSTATE_TAR
    /\ TarCount(LpcDec) = 2
    /\ LpcDec.cTarCycles = 1

\* In the history of d, ADDR is followed by DATA in a write cycle and by TAR and
\* then SYNC in a read cycle.
AddrSuccessors(d) ==
    \A i \in 0..d.idxState :
        d.aenmState[i] = LPCDECSTATE_ADDR =>
            /\ i + 1 <= d.idxState =>
                 d.aenmState[i + 1] = (IF d.fWrite # 0 THEN LPCDECSTATE_DATA ELSE LPCDECSTATE_TAR)
            /\ i + 2 <= d.idxState =>
                 d.aenmState[i + 2] = (IF d.fWrite # 0 THEN LPCDECSTATE_TAR ELSE LPCDECSTATE_SYNC)

\* C2: a line for a completed cycle is printed exactly by the step that
\* finishes the second TAR phase of a cycle; the state history is then
\* WAIT, START, ADDR, DATA, TAR, SYNC, TAR for a write and WAIT, START, ADDR,
\* TAR, SYNC, DATA, TAR for a read; no write history has a TAR between ADDR and
\* DATA and every read history has one between ADDR and SYNC.
C2_CompletedAtSecondTar ==
    [][ /\ HasCompleted(out') <=> SecondTarFinishes
        /\ HasCompleted(out') =>
            /\ Len(out') = 1
            /\ out'[1].fWrite = (IF LpcDec.fWrite # 0 THEN 1 ELSE 0)
            /\ StateChain(LpcDec) = (IF LpcDec.fWrite # 0 THEN ChainWrite ELSE ChainRead)
            /\ g_fVerbose # 0 => out'[1].chain = StateChain(LpcDec)
        /\ AddrSuccessors(LpcDec') ]_vars

C2_Witness ==
    /\ HasCompleted(out)
    /\ out[1].fWrite = 0
    /\ out[1].chain = ChainRead

\* C3: a sample that is no falling CLK edge (a rising edge or an unchanged
\* level) prints nothing and changes nothing of the decoder but the last clock
\* level; so the state history changes on falling edges only.
C3_OnlyFallingEdges ==
    [][ ~hEdge'.fall =>
            /\ out' = <<>>
            /\ \E fClk \in {0, 1} : LpcDec' = [LpcDec EXCEPT !.fClkLast = fClk] ]_vars

\* A rising edge went by in the middle of an address phase.
C3_Witness ==
    /\ ~hEdge.fall
    /\ LpcDec.fClkLast = 1
    /\ CurState(LpcDec) = LPCDECSTATE_ADDR
    /\ LpcDec.cAddrCycles = 2

\* The address nibbles of a cycle type.
AddrNibbleCount(bTyp) ==
    IF bTyp = LPC_DEC_CYC_TYPE_IO THEN 4
    ELSE IF bTyp = LPC_DEC_CYC_TYPE_MEM THEN 8
    ELSE -1

\* The nibble at position pos (0: bits 3..0) of an address of n nibbles whose
\* first nibbles, most significant first, are nibs.
NibbleAt(nibs, n, pos) == IF n - pos \in 1..Len(nibs) THEN nibs[n - pos] ELSE 0

HalfAt(nibs, n, pos) ==
      NibbleAt(nibs, n, pos) + 16 * NibbleAt(nibs, n, pos + 1)
    + 256 * NibbleAt(nibs, n, pos + 2) + 4096 * NibbleAt(nibs, n, pos + 3)

\* The address of n nibbles read most significant nibble first.
AddrOfNibbles(nibs, n) == [hi |-> HalfAt(nibs, n, 4), lo |-> HalfAt(nibs, n, 0)]

\* The data byte of nibbles read least significant nibble first.
DataOfNibbles(nibs) ==
    (IF Len(nibs) >= 1 THEN nibs[1] ELSE 0) + 16 * (IF Len(nibs) >= 2 THEN nibs[2] ELSE 0)

\* C4: the address phase is entered with 4 address cycles left for an I/O cycle
\* and 8 for a memory cycle, and the address printed for a completed cycle is
\* the 4 or 8 address nibbles in arrival order read most significant first.
C4_AddressBigNibbleEndian ==
    [][ /\ (CurState(LpcDec') = LPCDECSTATE_ADDR /\ CurState(LpcDec) # LPCDECSTATE_ADDR) =>
            /\ LpcDec'.bTyp \in {LPC_DEC_CYC_TYPE_IO, LPC_DEC_CYC_TYPE_MEM}
            /\ LpcDec'.cAddrCycles = AddrNibbleCount(LpcDec'.bTyp)
        /\ HasCompleted(out') =>
            /\ Len(hCycle.addr) = AddrNibbleCount(out'[1].bTyp)
            /\ out'[1].u32Addr = AddrOfNibbles(hCycle.addr, Len(hCycle.addr)) ]_vars

\* A memory cycle with address 0xE11E1EE1 completed.
C4_Witness ==
    /\ HasCompleted(out)
    /\ out[1].bTyp = LPC_DEC_CYC_TYPE_MEM
    /\ out[1].u32Addr = [hi |-> 57630, lo |-> 7905]

\* C5: a completed cycle went through one data phase that took exactly 2
\* nibbles, and the data byte printed is first nibble | second nibble << 4.
C5_DataLittleNibbleEndian ==
    [][ HasCompleted(out') =>
            /\ Len(hCycle.data) = 2
            /\ Cardinality({i \in 0..LpcDec.idxState :
                              LpcDec.aenmState[i] = LPCDECSTATE_DATA}) = 1
            /\ out'[1].bData = hCycle.data[1] + 16 * hCycle.data[2] ]_vars

\* A read of data 0x42 (nibbles 2, 4) completed.
C5_Witness ==
    /\ HasCompleted(out)
    /\ out[1].fWrite = 0
    /\ out[1].bData = 66

\* The cycle type bits 3..2 of a nibble select.
TypeOfNibble(bLad) ==
    CASE bLad \div 4 = 0 -> LPC_DEC_CYC_TYPE_IO
      [] bLad \div 4 = 1 -> LPC_DEC_CYC_TYPE_MEM
      [] bLad \div 4 = 2 -> LPC_DEC_CYC_TYPE_DMA
      [] bLad \div 4 = 3 -> LPC_DEC_CYC_TYPE_RSVD

\* The nibble with bit 0 inverted.
FlipBit0(bLad) == IF bLad % 2 = 0 THEN bLad + 1 ELSE bLad - 1

\* C6: when the START state is decoded with start nibble 0, bits 3..2 of the
\* sampled nibble give the cycle type (00 I/O, 01 memory, 10 DMA, 11 reserved),
\* bit 1 gives the direction (0 read, 1 write), and bit 0 changes nothing: the
\* nibble with bit 0 inverted leaves the decoder in the same state.
C6_TypeAndDirection ==
    [][ (FallingEdge(1) /\ CurState(LpcDec) = LPCDECSTATE_START
            /\ LpcDec.bStartLast = LPC_DEC_START_TARGET_CYCLE) =>
            /\ LpcDec'.bTyp = TypeOfNibble(hEdge'.bLad)
            /\ LpcDec'.fWrite = (hEdge'.bLad \div 2) % 2
            /\ LpcDec' = lpcDecStateSampleProcess(LpcDec, uSeqNo',
                             MkSample(0, 1, FlipBit0(hEdge'.bLad), 0)).d ]_vars

\* Nibble 1101 was decoded: reserved type, read, and the decoder is idle again.
C6_Witness ==
    /\ hEdge.fall /\ hEdge.fLFrame = 1 /\ hEdge.bLad = 13
    /\ LpcDec.bStartLast = LPC_DEC_START_TARGET_CYCLE
    /\ LpcDec.bTyp = LPC_DEC_CYC_TYPE_RSVD
    /\ LpcDec.fWrite = 0
    /\ CurState(LpcDec) = LPCDECSTATE_LFRAME_WAIT_ASSERTED

\* The line of the scripted memory write: completed, memory, write,
\* address 0x12340000, data 0xAB.
IsMemWriteLine(e) ==
    /\ e.fAbort = 0
    /\ e.bTyp = LPC_DEC_CYC_TYPE_MEM
    /\ e.fWrite = 1
    /\ e.u32Addr = [hi |-> 4660, lo |-> 0]
    /\ e.bData = 171

ScriptDone == iScript.pos = 2 * Len(ScriptEdges(iScript.cls))

\* C7 as stated: with type and direction nibble 0x5 the scripted capture prints
\* exactly one line, the completed memory write of 0xAB to 0x12340000.
C7_Original ==
    (iScript.cls = 5 /\ ScriptDone) =>
        (Len(iScript.log) = 1 /\ IsMemWriteLine(iScript.log[1]))

\* C7 amended: with type and direction nibble 0x6 (or 0x7: bit 0 is ignored) the
\* scripted capture prints nothing before its last edge and by then exactly one
\* line, the completed memory write of 0xAB to 0x12340000; with nibble 0x5 the
\* cycle is a memory read and no line of a write is printed.
C7_MemWriteScenario ==
    /\ iScript.cls \in {6, 7} =>
        /\ ~ScriptDone => iScript.log = <<>>
        /\ ScriptDone => (Len(iScript.log) = 1 /\ IsMemWriteLine(iScript.log[1]))
    /\ iScript.cls = 5 =>
        \A i \in 1..Len(iScript.log) :
            iScript.log[i].fWrite = 0 /\ iScript.log[i].bTyp = LPC_DEC_CYC_TYPE_MEM

C7_Witness ==
    /\ iScript.cls = 6
    /\ ScriptDone
    /\ Len(iScript.log) = 1
    /\ IsMemWriteLine(iScript.log[1])

\* C8 as stated: the sequence number of every printed line is larger than that
\* of the line before, and no cycle prints two lines.
C8_Original ==
    [][ out' # <<>> =>
            /\ Len(out') = 1
            /\ AfterLast(out'[1].uSeqNoCycle)
            /\ ~hOrder.reported ]_vars

\* C8 amended: over a capture with non-decreasing sequence numbers the sequence
\* numbers of the printed lines are non-decreasing; they are strictly
\* increasing when the sequence numbers of the capture are strictly increasing;
\* a cycle prints at most one line.
C8_OrderedLines ==
    [][ out' # <<>> =>
            /\ Len(out') = 1
            /\ NotBeforeLast(out'[1].uSeqNoCycle)
            /\ hOrder.strict => AfterLast(out'[1].uSeqNoCycle)
            /\ ~hOrder.reported ]_vars

\* A second line was printed over a capture of strictly increasing sequence numbers.
C8_Witness ==
    /\ out # <<>>
    /\ hOrder.strict
    /\ hOrder.second
    /\ hOrder.last = <<out[1].uSeqNoCycle>>

\* The step decodes a START state into an unsupported (DMA or reserved) cycle type.
UnsupportedReset ==
    /\ FallingEdge(1)
    /\ CurState(LpcDec) = LPCDECSTATE_START
    /\ LpcDec.bStartLast = LPC_DEC_START_TARGET_CYCLE
    /\ hEdge'.bLad \div 4 \in {2, 3}

Zeroed(d) == d.u32Addr = U32Zero /\ d.bData = 0 /\ d.iDataCycle = 0

\* C9 as stated: after an aborted line, a completed line or a reset for an
\* unsupported type the current state is WAIT and the accumulators are zero.
C9_Original ==
    [][ (HasAborted(out') \/ HasCompleted(out') \/ UnsupportedReset) =>
            /\ CurState(LpcDec') = LPCDECSTATE_LFRAME_WAIT_ASSERTED
            /\ Zeroed(LpcDec') ]_vars

\* C9 amended: after a completed line or a reset for an unsupported type the
\* current state is WAIT (history of that state alone); after an aborted line it
\* is START (history WAIT, START), the asserted LFRAME# having started the next
\* cycle; in all three cases address, data and data index are zero.
C9_ResetState ==
    [][ /\ (HasCompleted(out') \/ UnsupportedReset) =>
            /\ StateChain(LpcDec') = <<LPCDECSTATE_LFRAME_WAIT_ASSERTED>>
            /\ Zeroed(LpcDec')
        /\ HasAborted(out') =>
            /\ StateChain(LpcDec') = <<LPCDECSTATE_LFRAME_WAIT_ASSERTED, LPCDECSTATE_START>>
            /\ Zeroed(LpcDec') ]_vars

\* A cycle with data was aborted and the decoder is in START with zero accumulators.
C9_Witness ==
    /\ HasAborted(out)
    /\ out[1].bData # 0
    /\ CurState(LpcDec) = LPCDECSTATE_START
    /\ Zeroed(LpcDec)

\* C10: the line of a cycle aborted by LFRAME# in ADDR or later carries the type
\* and direction of the cycle's type nibble, the address and data nibbles the
\* cycle consumed before that edge at their positions, and the sequence number
\* of the sample that started the cycle.
C10_AbortCarriesPartialCycle ==
    [][ MidCycleAssert =>
            /\ Len(out') = 1
            /\ out'[1].fAbort = 1
            /\ out'[1].bTyp = TypeOfNibble(hCycle.cls)
            /\ out'[1].fWrite = (hCycle.cls \div 2) % 2
            /\ out'[1].u32Addr =
                   AddrOfNibbles(hCycle.addr, AddrNibbleCount(TypeOfNibble(hCycle.cls)))
            /\ out'[1].bData = DataOfNibbles(hCycle.data)
            /\ out'[1].uSeqNoCycle = U64Of(hCycle.uSeqStart) ]_vars

\* A memory cycle started at sequence number 0 was aborted at sequence number 1
\* after the address nibbles E, 1.
C10_Witness ==
    /\ HasAborted(out)
    /\ out[1].bTyp = LPC_DEC_CYC_TYPE_MEM
    /\ out[1].u32Addr = [hi |-> 57600, lo |-> 0]
    /\ out[1].uSeqNoCycle = U64Of(0)
    /\ uSeqNo = 1

\* The step is a falling edge with LFRAME# asserted and start nibble 0xf, taken
\* while the decoder waits for LFRAME#.
IdleAbortStart ==
    /\ FallingEdge(0)
    /\ CurState(LpcDec) = LPCDECSTATE_LFRAME_WAIT_ASSERTED
    /\ hEdge'.bLad = LPC_DEC_START_ABORT

\* The step decodes a START state whose start nibble was 0xf.
AbortStartDecoded ==
    /\ FallingEdge(1)
    /\ CurState(LpcDec) = LPCDECSTATE_START
    /\ LpcDec.bStartLast = LPC_DEC_START_ABORT

\* C11 as stated: LFRAME# asserted with start nibble 0xf while idle prints
\* nothing and leaves the decoder in WAIT.
C11_Original ==
    [][ IdleAbortStart =>
            /\ out' = <<>>
            /\ CurState(LpcDec') = LPCDECSTATE_LFRAME_WAIT_ASSERTED ]_vars

\* C11 amended: LFRAME# asserted with start nibble 0xf while idle prints nothing
\* and puts the decoder in START (history WAIT, START) with the start nibble
\* stored; the next falling edge with LFRAME# deasserted prints nothing and
\* resets the decoder to WAIT.
C11_IdleAbort ==
    [][ /\ IdleAbortStart =>
            /\ out' = <<>>
            /\ StateChain(LpcDec') = <<LPCDECSTATE_LFRAME_WAIT_ASSERTED, LPCDECSTATE_START>>
            /\ LpcDec'.bStartLast = LPC_DEC_START_ABORT
        /\ AbortStartDecoded =>
            /\ out' = <<>>
            /\ StateChain(LpcDec') = <<LPCDECSTATE_LFRAME_WAIT_ASSERTED>> ]_vars

\* The START state of start nibble 0xf was decoded (on LAD 6) and the decoder
\* waits for LFRAME# again.
C11_Witness ==
    /\ hEdge.fall /\ hEdge.fLFrame = 1 /\ hEdge.bLad = 6
    /\ LpcDec.bStartLast = LPC_DEC_START_ABORT
    /\ CurState(LpcDec) = LPCDECSTATE_LFRAME_WAIT_ASSERTED
    /\ out = <<>>

\* C12: decoding START with start nibble 0 and a DMA or reserved type prints
\* nothing and leaves the decoder in WAIT with the history reset; from WAIT the
\* ADDR state is not reached without a new start, and whenever the decoder is in
\* ADDR the type nibble of the cycle in progress is I/O or memory.
C12_UnsupportedType ==
    [][ /\ UnsupportedReset =>
            /\ out' = <<>>
            /\ LpcDec'.idxState = 0
            /\ StateChain(LpcDec') = <<LPCDECSTATE_LFRAME_WAIT_ASSERTED>>
        /\ CurState(LpcDec) = LPCDECSTATE_LFRAME_WAIT_ASSERTED =>
            CurState(LpcDec') \in {LPCDECSTATE_LFRAME_WAIT_ASSERTED, LPCDECSTATE_START}
        /\ CurState(LpcDec') = LPCDECSTATE_ADDR =>
            hCycle'.cls \div 4 \in {LPC_DEC_CYC_TYPE_IO, LPC_DEC_CYC_TYPE_MEM} ]_vars

\* The type nibble 1010 (DMA) was decoded and the decoder waits for LFRAME# again.
C12_Witness ==
    /\ hEdge.fall /\ hEdge.fLFrame = 1 /\ hEdge.bLad = 10
    /\ LpcDec.bStartLast = LPC_DEC_START_TARGET_CYCLE
    /\ LpcDec.bTyp = LPC_DEC_CYC_TYPE_DMA
    /\ CurState(LpcDec) = LPCDECSTATE_LFRAME_WAIT_ASSERTED
    /\ out = <<>>

\* C13: decoding START with a start nibble that is neither 0 nor 0xf prints
\* nothing and resets the decoder to WAIT.
C13_UnrecognisedStart ==
    [][ (/\ FallingEdge(1)
         /\ CurState(LpcDec) = LPCDECSTATE_START
         /\ LpcDec.bStartLast \notin {LPC_DEC_START_TARGET_CYCLE, LPC_DEC_START_ABORT}) =>
            /\ out' = <<>>
            /\ CurState(LpcDec') = LPCDECSTATE_LFRAME_WAIT_ASSERTED ]_vars

\* C14: in every reachable state idxState is at most 8, the last index of the
\* 9 entries of aenmState, the entries 0..idxState are the ones written, and
\* the TAR state, whose advancement reads aenmState[idxState - 1], is the
\* current state only with idxState at least 1.
C14_HistoryBounded ==
    /\ LpcDec.idxState <= AENM_STATE_ENTRIES - 1
    /\ DOMAIN LpcDec.aenmState = 0..LpcDec.idxState
    /\ CurState(LpcDec) = LPCDECSTATE_TAR => LpcDec.idxState >= 1

\* The longest history: the second TAR of a write cycle, at index 6.
C14_Witness ==
    /\ LpcDec.idxState = 6
    /\ CurState(LpcDec) = LPCDECSTATE_TAR
    /\ LpcDec.aenmState[5] = LPCDECSTATE_SYNC
    /\ LpcDec.aenmState[3] = LPCDECSTATE_DATA

\* C15: the processing of one sample prints at most one line, and never an
\* aborted and a completed line together.
C15_AtMostOneLine ==
    /\ Len(out) <= 1
    /\ ~(HasAborted(out) /\ HasCompleted(out))

\* LFRAME# was asserted in the second TAR of a write cycle, the phase whose last
\* edge completes the cycle: one line, the aborted one.
C15_Witness ==
    /\ Len(out) = 1
    /\ out[1].fAbort = 1
    /\ out[1].chain = ChainWrite

\* C16: lpcDecStateSampleProcess is called for the complete records of the
\* capture only, so no completed line is printed by a call made after the
\* last of them.
C16_HaltsOnEndOfStream ==
    /\ BufFile.cCalls <= BufFile.cRecords
    /\ ~(BufFile.cCalls > BufFile.cRecords /\ HasCompleted(out))

\* The conclusion of C16 alone: a cycle in flight at the end of the capture is
\* not printed as completed.
C16_NoCompletedAfterEos ==
    ~(BufFile.cCalls > BufFile.cRecords /\ HasCompleted(out) /\ ~BufFile.fUb)

\* C17: after a falling edge with LFRAME# asserted, whatever the state before,
\* bStartLast is the sampled LAD nibble, uSeqNoCycle is the sequence number of
\* that sample, the history is WAIT, START, and address, data and data index
\* are zero.
C17_FrameAssertedRestarts ==
    [][ FallingEdge(0) =>
            /\ LpcDec'.bStartLast = hEdge'.bLad
            /\ LpcDec'.uSeqNoCycle = U64Of(uSeqNo')
            /\ LpcDec'.idxState = 1
            /\ StateChain(LpcDec') = <<LPCDECSTATE_LFRAME_WAIT_ASSERTED, LPCDECSTATE_START>>
            /\ Zeroed(LpcDec') ]_vars

\* A write cycle started at sequence number 0 was cut with data in the
\* accumulator by LFRAME# with start nibble 5 at sequence number 1.
C17_Witness ==
    /\ hEdge.fall /\ hEdge.fLFrame = 0 /\ hEdge.bLad = 5
    /\ HasAborted(out)
    /\ out[1].bData # 0
    /\ out[1].uSeqNoCycle = U64Of(0)
    /\ LpcDec.bStartLast = 5
    /\ LpcDec.uSeqNoCycle = U64Of(1)
    /\ LpcDec.idxState = 1
    /\ LpcDec.bData = 0

\* The decoder after a falling edge that changed nothing but the clock level.
OnlyClockFell(d) == [d EXCEPT !.fClkLast = 0]

\* C18: in SYNC a falling edge with LFRAME# deasserted and a nonzero LAD nibble
\* prints nothing and leaves the decoder as it was (but for the clock level
\* it tracks), edge after edge; an edge with nibble 0 advances, a write to TAR
\* with 2 cycles left, a read to DATA with 2 data cycles.
C18_SyncWaits ==
    [][ (FallingEdge(1) /\ CurState(LpcDec) = LPCDECSTATE_SYNC) =>
            /\ out' = <<>>
            /\ hEdge'.bLad # 0 => LpcDec' = OnlyClockFell(LpcDec)
            /\ (hEdge'.bLad = 0 /\ LpcDec.fWrite # 0) =>
                   /\ StateChain(LpcDec') = Append(StateChain(LpcDec), LPCDECSTATE_TAR)
                   /\ LpcDec'.cTarCycles = 2
            /\ (hEdge'.bLad = 0 /\ LpcDec.fWrite = 0) =>
                   /\ StateChain(LpcDec') = Append(StateChain(LpcDec), LPCDECSTATE_DATA)
                   /\ LpcDec'.cDataCycles = 2
                   /\ LpcDec'.iDataCycle = 0 ]_vars

\* A read cycle held in SYNC by the wait nibble 5.
C18_Witness ==
    /\ hEdge.fall /\ hEdge.fLFrame = 1 /\ hEdge.bLad = 5
    /\ CurState(LpcDec) = LPCDECSTATE_SYNC
    /\ LpcDec.fWrite = 0

\* C19: TAR is entered with 2 cycles left; the first falling edge with LFRAME#
\* deasserted in TAR prints nothing and only counts down, the second leaves TAR
\* for SYNC or, with a completed line, for WAIT; the LAD nibble sampled on
\* either edge makes no difference to the decoder.
C19_TurnAroundTwoEdges ==
    [][ /\ (CurState(LpcDec') = LPCDECSTATE_TAR /\ LpcDec'.idxState # LpcDec.idxState) =>
            LpcDec'.cTarCycles = 2
        /\ CurState(LpcDec') = LPCDECSTATE_TAR => LpcDec'.cTarCycles \in {1, 2}
        /\ (FallingEdge(1) /\ CurState(LpcDec) = LPCDECSTATE_TAR) =>
            /\ LpcDec.cTarCycles = 2 =>
                   /\ out' = <<>>
                   /\ LpcDec' = [OnlyClockFell(LpcDec) EXCEPT !.cTarCycles = 1]
            /\ LpcDec.cTarCycles = 1 =>
                   /\ CurState(LpcDec') \in {LPCDECSTATE_SYNC, LPCDECSTATE_LFRAME_WAIT_ASSERTED}
                   /\ CurState(LpcDec') = LPCDECSTATE_LFRAME_WAIT_ASSERTED <=> HasCompleted(out')
            /\ \A l \in Nibbles :
                   lpcDecStateSampleProcess(LpcDec, uSeqNo', MkSample(0, 1, l, 0)).d = LpcDec' ]_vars

\* The second TAR of a write cycle after its first edge (LAD 1111).
C19_Witness ==
    /\ hEdge.fall /\ hEdge.fLFrame = 1 /\ hEdge.bLad = 15
    /\ CurState(LpcDec) = LPCDECSTATE_TAR
    /\ LpcDec.cTarCycles = 1
    /\ LpcDec.idxState = 6

\* The address u32 with nibble bLad added at nibble position c (0: bits 3..0).
AddrPlusNibble(u32, bLad, c) ==
    IF c >= 4 THEN [hi |-> u32.hi + bLad * 16 ^ (c - 4), lo |-> u32.lo]
    ELSE [hi |-> u32.hi, lo |-> u32.lo + bLad * 16 ^ c]

\* What a falling edge with LFRAME# level fLFrame in ADDR does according to
\* C20: the count goes down by one, the nibble lands at the position of the
\* new count, and at zero the state advances (DATA for a write, TAR for a read).
AddrNibbleConsumed(fLFrame) ==
    (FallingEdge(fLFrame) /\ CurState(LpcDec) = LPCDECSTATE_ADDR) =>
        /\ out' = <<>>
        /\ LpcDec'.cAddrCycles = LpcDec.cAddrCycles - 1
        /\ LpcDec'.u32Addr = AddrPlusNibble(LpcDec.u32Addr, hEdge'.bLad, LpcDec'.cAddrCycles)
        /\ LpcDec'.cAddrCycles # 0 => StateChain(LpcDec') = StateChain(LpcDec)
        /\ LpcDec'.cAddrCycles = 0 =>
               StateChain(LpcDec') =
                   Append(StateChain(LpcDec),
                          IF LpcDec.fWrite # 0 THEN LPCDECSTATE_DATA ELSE LPCDECSTATE_TAR)

\* C20 as stated: the address nibbles are consumed on the falling edges with
\* LFRAME# asserted (low).
C20_Original == [][AddrNibbleConsumed(0)]_vars

\* C20 amended: the address nibbles are consumed on the falling edges with
\* LFRAME# deasserted (high); an edge with LFRAME# asserted aborts the cycle.
C20_AddressNibbles ==
    [][ /\ AddrNibbleConsumed(1)
        /\ (FallingEdge(0) /\ CurState(LpcDec) = LPCDECSTATE_ADDR) => HasAborted(out') ]_vars

\* A memory cycle after the address nibbles E, 1, E: 5 cycles left.
C20_Witness ==
    /\ CurState(LpcDec) = LPCDECSTATE_ADDR
    /\ LpcDec.cAddrCycles = 5
    /\ LpcDec.u32Addr = [hi |-> 57824, lo |-> 0]
    /\ hEdge.fall /\ hEdge.bLad = 14

\* Bit i of a byte.
BitOfByte(bVal, i) == (bVal \div (2 ^ i)) % 2

\* C21: with the pin map of main() the LAD nibble extracted from a sample byte
\* is bit5 + 2*bit4 + 4*bit3 + 8*bit2 of the byte, lies in 0..15, and is the
\* same for the bytes that differ from it in bits 0, 1, 6 and 7 only.
C21_LadExtract ==
    /\ hLad.bLad = BitOfByte(hLad.bVal, 5) + 2 * BitOfByte(hLad.bVal, 4)
                   + 4 * BitOfByte(hLad.bVal, 3) + 8 * BitOfByte(hLad.bVal, 2)
    /\ hLad.bLad \in 0..15
    /\ \A lo \in 0..3, hi \in 0..3 :
           lpcDecStateLadExtractFromSample(LpcDec,
               ((hLad.bVal % 64) - (hLad.bVal % 4)) + lo + 64 * hi) = hLad.bLad

\* The byte 0xE7 (bits 7, 6, 5, 2, 1, 0) gave the nibble 9 (LAD0 and LAD3).
C21_Witness ==
    /\ hLad.bVal = 231
    /\ hLad.bLad = 9

\* C22: a falling edge with LFRAME# asserted taken in WAIT or START prints
\* nothing and leaves the decoder in START with history WAIT, START and with
\* bStartLast and uSeqNoCycle those of that edge; no other sample changes the
\* two, so over a run of such edges they are those of the last one, and the
\* START state is then decoded by that nibble: 0 decodes type and direction,
\* 0xf resets to WAIT.
C22_FrameHeldAsserted ==
    [][ /\ (FallingEdge(0) /\ CurState(LpcDec) \in {LPCDECSTATE_LFRAME_WAIT_ASSERTED,
                                                   LPCDECSTATE_START}) =>
            /\ out' = <<>>
            /\ StateChain(LpcDec') = <<LPCDECSTATE_LFRAME_WAIT_ASSERTED, LPCDECSTATE_START>>
            /\ LpcDec'.bStartLast = hEdge'.bLad
            /\ LpcDec'.uSeqNoCycle = U64Of(uSeqNo')
        /\ ~FallingEdge(0) =>
            /\ LpcDec'.bStartLast = LpcDec.bStartLast
            /\ LpcDec'.uSeqNoCycle = LpcDec.uSeqNoCycle
        /\ (FallingEdge(1) /\ CurState(LpcDec) = LPCDECSTATE_START) =>
            /\ LpcDec.bStartLast = LPC_DEC_START_TARGET_CYCLE =>
                   /\ LpcDec'.bTyp = TypeOfNibble(hEdge'.bLad)
                   /\ CurState(LpcDec') \in {LPCDECSTATE_ADDR, LPCDECSTATE_LFRAME_WAIT_ASSERTED}
            /\ LpcDec.bStartLast = LPC_DEC_START_ABORT =>
                   CurState(LpcDec') = LPCDECSTATE_LFRAME_WAIT_ASSERTED ]_vars

\* LFRAME# was asserted on two falling edges in a row, the last at sequence
\* number 1 with nibble 0xf.
C22_Witness ==
    /\ hCycle.cAsserted = 2
    /\ hEdge.fall /\ hEdge.fLFrame = 0 /\ hEdge.bLad = 15
    /\ CurState(LpcDec) = LPCDECSTATE_START
    /\ LpcDec.bStartLast = LPC_DEC_START_ABORT
    /\ LpcDec.uSeqNoCycle = U64Of(1)
    /\ out = <<>>

\* C23: the countdown counters stay in range: in ADDR cAddrCycles is in 1..8,
\* in TAR cTarCycles is 1 or 2, in DATA iDataCycle is 0 or 1 and cDataCycles
\* is 2; hence the next address nibble is shifted by at most 28 bits, the next
\* data nibble by at most 4 bits, and no data nibble is shifted beyond bit 7.
C23_CountersInRange ==
    /\ CurState(LpcDec) = LPCDECSTATE_ADDR =>
           /\ LpcDec.cAddrCycles \in 1..8
           /\ (LpcDec.cAddrCycles - 1) * 4 \in 0..28
    /\ CurState(LpcDec) = LPCDECSTATE_TAR => LpcDec.cTarCycles \in 1..2
    /\ CurState(LpcDec) = LPCDECSTATE_DATA =>
           /\ LpcDec.iDataCycle \in 0..1
           /\ LpcDec.cDataCycles = 2
           /\ LpcDec.iDataCycle * 4 \in 0..4
           /\ Shl(15, LpcDec.iDataCycle * 4) < UINT8_MOD
    /\ LpcDec.bData \in 0..(UINT8_MOD - 1)

\* A memory cycle between its two data nibbles: eight address nibbles were
\* shifted in, the first by 28 bits, and the first data nibble is stored.
C23_Witness ==
    /\ CurState(LpcDec) = LPCDECSTATE_DATA
    /\ LpcDec.iDataCycle = 1
    /\ LpcDec.cAddrCycles = 0
    /\ LpcDec.u32Addr.hi = 39321
    /\ LpcDec.bData = 6

\* C24: in every state of the file reader reached by the loop of main(),
\* offBuf <= cbData, so that cbData - offBuf in lpcDecFileBufReaderEnsureData
\* does not wrap around and the bytes handed out lie within the valid bytes.
C24_OffsetWithinData ==
    /\ BufFile.offBuf <= BufFile.cbData
    /\ ~BufFile.fUb

====
